---------------------------- MODULE Spec2Model ----------------------------
(***************************************************************************)
(* Model of the PyB3 codec: the B3 line parser (pyb3/B3.py) and the B3     *)
(* line generator (pyb3/outputter.py).                                     *)
(*                                                                         *)
(* A line is a sequence of one-character strings; Python's 0-indexed,      *)
(* half-open slices are modelled by Slice.  Python floats are modelled as  *)
(* exact numbers n/d * 10^e in a unique normal form (Num), so structural   *)
(* equality is numeric equality; binary floating-point representation     *)
(* error is not modelled, except where makeRA's dec + 360 rounds up to     *)
(* 720.0 (PrevFloat360).  A raised Python exception is the record          *)
(* Raise(kind).                                                            *)
(***************************************************************************)
EXTENDS Integers, Sequences, FiniteSets, TLC

VARIABLES
    L,        \* the raw input line handed to B3(L)
    rec,      \* the B3 object after __init__ (or the exception it raised)
    asd,      \* result of B3.toAstrostdDict()
    out,      \* result of B3.toB3()
    gdata,    \* record mapping handed directly to b3_dispatcher
    gdatetm,  \* datetm override handed to b3_dispatcher (None when absent)
    geq,      \* equinox code handed to b3_dispatcher
    gout,     \* result of b3_dispatcher(gdata, gdatetm, geq)
    gplain,   \* result of b3_dispatcher(gdata, equinox=geq), no override
    fval,     \* B3_float_field input value
    ffield,   \* the wire field whose layout (left, right) is used
    fenc,     \* result of B3_float_field(fval, left, right)
    fdec,     \* what the parser decodes from fenc placed in its column
    rval,     \* makeRange input
    renc,     \* result of makeRange(rval)
    rdec,     \* range the parser decodes from renc
    aval,     \* makeRA input angle, degrees
    aenc,     \* result of makeRA(aval)
    adec      \* azra the parser decodes from aenc

vars == <<L, rec, asd, out, gdata, gdatetm, geq, gout, gplain,
          fval, ffield, fenc, fdec, rval, renc, rdec, aval, aenc, adec>>

lineVars  == <<L, rec, asd, out>>
genVars   == <<gdata, gdatetm, geq, gout, gplain>>
fieldVars == <<fval, ffield, fenc, fdec>>
rangeVars == <<rval, renc, rdec>>
raVars    == <<aval, aenc, adec>>

----------------------------------------------------------------------------
(* Python values *)

None == [none |-> TRUE]
NotYet == [notyet |-> TRUE]
Raise(kind) == [raised |-> TRUE, exc |-> kind]
IsRaise(x) == "raised" \in DOMAIN x
\* a str or an int where the same slot may hold None or an exception
Str(s) == [str |-> s]
PyInt(i) == [int |-> i]

Min(a, b) == IF a < b THEN a ELSE b
Max(a, b) == IF a > b THEN a ELSE b
Abs(x) == IF x < 0 THEN -x ELSE x

RECURSIVE Pow10(_)
Pow10(k) == IF k <= 0 THEN 1 ELSE 10 * Pow10(k - 1)

RECURSIVE Gcd(_, _)
Gcd(a, b) == IF b = 0 THEN a ELSE Gcd(b, a % b)

(* A float: n/d * 10^e, with d > 0 coprime to n and to 10, n not a multiple *)
(* of 10, and zero written <<0, 1, 0>>.                                     *)
RECURSIVE NumNorm(_, _, _)
NumNorm(n, d, e) ==
    IF n = 0 THEN [n |-> 0, d |-> 1, e |-> 0]
    ELSE IF n % 10 = 0 THEN NumNorm(n \div 10, d, e + 1)
    ELSE IF d % 10 = 0 THEN NumNorm(n, d \div 10, e - 1)
    ELSE IF d % 2 = 0 THEN NumNorm(n * 5, d \div 2, e - 1)
    ELSE IF d % 5 = 0 THEN NumNorm(n * 2, d \div 5, e - 1)
    ELSE LET g == Gcd(Abs(n), d) IN
         IF g > 1 THEN NumNorm(n \div g, d \div g, e)
         ELSE [n |-> n, d |-> d, e |-> e]

Float(i) == NumNorm(i, 1, 0)
IsNum(x) == "n" \in DOMAIN x
NumNeg(v) == v.n < 0
NumAbs(v) == [v EXCEPT !.n = Abs(v.n)]

(* |v| * 10^r as the fraction num/den of two integers *)
ScaledNum(v, r) == IF v.e + r >= 0 THEN Abs(v.n) * Pow10(v.e + r) ELSE Abs(v.n)
ScaledDen(v, r) == IF v.e + r >= 0 THEN v.d ELSE v.d * Pow10(-(v.e + r))

----------------------------------------------------------------------------
(* Python strings *)

DigitChars == <<"0", "1", "2", "3", "4", "5", "6", "7", "8", "9">>
IsDigit(c) == \E i \in 1..10 : DigitChars[i] = c
DigitVal(c) == (CHOOSE i \in 1..10 : DigitChars[i] = c) - 1

\* s[a:b]
Slice(s, a, b) == SubSeq(s, a + 1, Min(b, Len(s)))
\* s[a:]
SliceFrom(s, a) == SubSeq(s, a + 1, Len(s))
\* s[-k:]
LastK(s, k) == IF Len(s) <= k THEN s ELSE SubSeq(s, Len(s) - k + 1, Len(s))

RECURSIVE Repeat(_, _)
Repeat(c, k) == IF k <= 0 THEN <<>> ELSE <<c>> \o Repeat(c, k - 1)

rjust(s, w, c) == Repeat(c, w - Len(s)) \o s
ljust(s, w, c) == s \o Repeat(c, w - Len(s))

RECURSIVE lstrip(_)
lstrip(s) == IF s # <<>> /\ Head(s) = " " THEN lstrip(Tail(s)) ELSE s
RECURSIVE rstrip(_)
rstrip(s) == IF s # <<>> /\ s[Len(s)] = " " THEN rstrip(SubSeq(s, 1, Len(s) - 1)) ELSE s
strip(s) == rstrip(lstrip(s))

AllDigits(s) == \A i \in 1..Len(s) : IsDigit(s[i])

RECURSIVE DigitsVal(_)
DigitsVal(s) == IF s = <<>> THEN 0
                ELSE 10 * DigitsVal(SubSeq(s, 1, Len(s) - 1)) + DigitVal(s[Len(s)])

RECURSIVE NatStr(_)
NatStr(k) == IF k < 10 THEN <<DigitChars[k + 1]>>
             ELSE NatStr(k \div 10) \o <<DigitChars[(k % 10) + 1]>>

\* str(i) for an int
IntStr(i) == IF i < 0 THEN <<"-">> \o NatStr(-i) ELSE NatStr(i)

\* '{:0wd}'.format(i): sign first, zero padding to width w, never truncated
FormatD(i, w) == IF i < 0 THEN <<"-">> \o rjust(NatStr(-i), w - 1, "0")
                 ELSE rjust(NatStr(i), w, "0")

\* int(s) / float(s) of a string over digits, blanks, signs and letters:
\* surrounding blanks are stripped, one sign is allowed, then digits only
Unsigned(s) == IF s # <<>> /\ Head(s) \in {"+", "-"} THEN Tail(s) ELSE s
IntOK(s) == LET t == Unsigned(strip(s)) IN t # <<>> /\ AllDigits(t)
IntVal(s) == LET t == strip(s) IN
             IF Head(t) = "-" THEN -DigitsVal(Tail(t)) ELSE DigitsVal(Unsigned(t))


----------------------------------------------------------------------------
(* pyb3/B3.py *)

as_fields ==
    {"XA_OBS_ASTAT", "XA_OBS_AZORRA", "XA_OBS_AZRATE", "XA_OBS_DS50UTC",
     "XA_OBS_ELORDEC", "XA_OBS_ELRATE", "XA_OBS_OBSTYPE", "XA_OBS_POSX",
     "XA_OBS_POSY", "XA_OBS_POSZ", "XA_OBS_RANGE", "XA_OBS_RANGEACCEL",
     "XA_OBS_RANGERATE", "XA_OBS_SATNUM", "XA_OBS_SECCLASS", "XA_OBS_SENNUM",
     "XA_OBS_SIGMAEL1", "XA_OBS_SIGMAEL10", "XA_OBS_SIGMAEL11", "XA_OBS_SIGMAEL12",
     "XA_OBS_SIGMAEL13", "XA_OBS_SIGMAEL14", "XA_OBS_SIGMAEL15", "XA_OBS_SIGMAEL16",
     "XA_OBS_SIGMAEL17", "XA_OBS_SIGMAEL18", "XA_OBS_SIGMAEL19", "XA_OBS_SIGMAEL2",
     "XA_OBS_SIGMAEL20", "XA_OBS_SIGMAEL21", "XA_OBS_SIGMAEL3", "XA_OBS_SIGMAEL4",
     "XA_OBS_SIGMAEL5", "XA_OBS_SIGMAEL6", "XA_OBS_SIGMAEL7", "XA_OBS_SIGMAEL8",
     "XA_OBS_SIGMAEL9", "XA_OBS_SIGMATYPE", "XA_OBS_SITETAG", "XA_OBS_SPADOCTAG",
     "XA_OBS_TRACKIND", "XA_OBS_VELX", "XA_OBS_VELY", "XA_OBS_VELZ"}

classmap == ("U" :> Float(1)) @@ ("C" :> Float(2)) @@ ("S" :> Float(3))

charmap ==
    ("J" :> <<"-", "1">>) @@ ("K" :> <<"-", "2">>) @@ ("L" :> <<"-", "3">>) @@
    ("M" :> <<"-", "4">>) @@ ("N" :> <<"-", "5">>) @@ ("O" :> <<"-", "6">>) @@
    ("P" :> <<"-", "7">>) @@ ("Q" :> <<"-", "8">>) @@ ("R" :> <<"-", "9">>)

\* self.default
default == Float(-1)

IsLeap(y) == (y % 4 = 0 /\ y % 100 # 0) \/ y % 400 = 0
DaysInYear(y) == IF IsLeap(y) THEN 366 ELSE 365

\* datetime.strptime(isot, '%Y %j %H %M %S %f') on the six blank-separated
\* tokens of isot: a token that its directive cannot match, or a field the
\* datetime constructor rejects, raises ValueError; a day-of-year past the
\* end of the year runs on into the next year
strptime(tY, tj, tH, tM, tS, tf) ==
    IF \/ ~AllDigits(tY) \/ Len(tY) # 4
       \/ ~AllDigits(tj) \/ Len(tj) \notin 1..3 \/ DigitsVal(tj) \notin 1..366
       \/ ~AllDigits(tH) \/ Len(tH) \notin 1..2 \/ DigitsVal(tH) > 23
       \/ ~AllDigits(tM) \/ Len(tM) \notin 1..2 \/ DigitsVal(tM) > 59
       \/ ~AllDigits(tS) \/ Len(tS) \notin 1..2 \/ DigitsVal(tS) > 59
       \/ ~AllDigits(tf) \/ Len(tf) \notin 1..6
    THEN Raise("ValueError")
    ELSE LET y == DigitsVal(tY)
             j == DigitsVal(tj)
             over == j > DaysInYear(y)
         IN  [year        |-> IF over THEN y + 1 ELSE y,
              doy         |-> IF over THEN j - DaysInYear(y) ELSE j,
              hour        |-> DigitsVal(tH),
              minute      |-> DigitsVal(tM),
              second      |-> DigitsVal(tS),
              microsecond |-> DigitsVal(ljust(tf, 6, "0"))]

setdate(year, doy, hour, minute, second, millis) ==
    strptime(FormatD(year, 4), FormatD(doy, 3), FormatD(hour, 2),
             FormatD(minute, 2), FormatD(second, 2),
             ljust(IntStr(millis), 6, "0"))

\* try: int(s) except: None
TryInt(s) == IF IntOK(s) THEN PyInt(IntVal(s)) ELSE None
\* try: float(s) / 10^k except: self.default
TryScaled(s, k) == IF IntOK(s) THEN NumNorm(IntVal(s), 1, -k) ELSE default

obstypes_eledec  == {1, 2, 3, 4, 5, 8, 9}
obstypes_azdec   == {1, 2, 3, 4, 8}
obstypes_azsexa  == {5, 9}
obstypes_ecf     == {8, 9}

\* the string float() is applied to for elevation/declination
eledec_text(Ln) ==
    LET poschar == Ln[24]
        prefix  == IF poschar \in DOMAIN charmap THEN charmap[poschar] ELSE <<poschar>>
    IN  prefix \o Slice(Ln, 24, 29)

\* the statements of parse that raise when they cannot be evaluated
parse_raises(Ln) ==
    \/ Len(Ln) < 1
    \/ \E sl \in {<<1, 6>>, <<6, 9>>, <<9, 11>>, <<11, 14>>, <<14, 16>>,
                  <<16, 18>>, <<18, 20>>, <<20, 23>>} :
          ~IntOK(Slice(Ln, sl[1], sl[2]))
    \/ Len(Ln) < 75
    \/ ~IntOK(<<Ln[75]>>)
    \/ LET obstype == IntVal(<<Ln[75]>>) IN
       \/ obstype \in obstypes_eledec /\ ~IntOK(eledec_text(Ln))
       \/ obstype \in obstypes_azdec /\ ~IntOK(Slice(Ln, 30, 37))
       \/ obstype \in obstypes_azsexa /\
            (~IntOK(Slice(Ln, 30, 32)) \/ ~IntOK(Slice(Ln, 32, 34))
               \/ ~IntOK(Slice(Ln, 34, 37)))
       \/ obstype \in obstypes_ecf /\
            (~IntOK(Slice(Ln, 46, 55)) \/ ~IntOK(Slice(Ln, 55, 64))
               \/ ~IntOK(Slice(Ln, 64, 73)))
    \/ Len(Ln) < 76

parse(Ln) ==
    IF parse_raises(Ln) THEN Raise("ValueError")
    ELSE
    LET yy      == IntVal(Slice(Ln, 9, 11))
        year    == IF yy < 50 THEN yy + 2000 ELSE yy + 1900
        doy     == IntVal(Slice(Ln, 11, 14))
        hour    == IntVal(Slice(Ln, 14, 16))
        minute  == IntVal(Slice(Ln, 16, 18))
        second  == IntVal(Slice(Ln, 18, 20))
        millis  == IntVal(Slice(Ln, 20, 23))
        obstype == IntVal(<<Ln[75]>>)
        rgexp   == IF Len(Ln) > 45 /\ IntOK(<<Ln[46]>>)
                   THEN IntVal(<<Ln[46]>>) ELSE -1
        dt      == setdate(year, doy, hour, minute, second, millis)
        sexa    == IntVal(Slice(Ln, 30, 32)) * 36000
                     + IntVal(Slice(Ln, 32, 34)) * 600 + IntVal(Slice(Ln, 34, 37))
    IN
    IF IsRaise(dt) THEN dt
    ELSE
    [classification |-> Ln[1],
     satid          |-> IntVal(Slice(Ln, 1, 6)),
     sensid         |-> IntVal(Slice(Ln, 6, 9)),
     year           |-> year,
     doy            |-> doy,
     hour           |-> hour,
     minute         |-> minute,
     second         |-> second,
     millis         |-> millis,
     alldate        |-> Slice(Ln, 9, 23),
     obstype        |-> obstype,
     \* eledec is assigned only inside the if: otherwise the attribute does not exist
     eledec         |-> IF obstype \in obstypes_eledec
                        THEN NumNorm(IntVal(eledec_text(Ln)), 1, -4)
                        ELSE [unset |-> TRUE],
     azra           |-> IF obstype \in obstypes_azdec
                          THEN NumNorm(IntVal(Slice(Ln, 30, 37)), 1, -4)
                        ELSE IF obstype \in obstypes_azsexa
                          THEN NumNorm(sexa, 24, -2)
                        ELSE Float(0),
     rgexp          |-> Float(rgexp),
     range          |-> IF IntOK(Slice(Ln, 38, 45))
                        THEN NumNorm(IntVal(Slice(Ln, 38, 45)), 1, rgexp - 5)
                        ELSE default,
     ecfx           |-> IF obstype \in obstypes_ecf
                        THEN NumNorm(IntVal(Slice(Ln, 46, 55)), 1, -3) ELSE Float(0),
     ecfy           |-> IF obstype \in obstypes_ecf
                        THEN NumNorm(IntVal(Slice(Ln, 55, 64)), 1, -3) ELSE Float(0),
     ecfz           |-> IF obstype \in obstypes_ecf
                        THEN NumNorm(IntVal(Slice(Ln, 64, 73)), 1, -3) ELSE Float(0),
     \* the unconditional try after the 8/9 branch overwrites its rngrate = 0.
     rngrate        |-> TryScaled(Slice(Ln, 47, 54), 5),
     elrate         |-> TryScaled(Slice(Ln, 55, 60), 4),
     azrate         |-> TryScaled(Slice(Ln, 61, 66), 4),
     rangeacc       |-> TryScaled(Slice(Ln, 67, 72), 4),
     equinox        |-> IF Ln[76] \in {" ", "0"} THEN "TEME"
                        ELSE IF Ln[76] = "1" THEN "YEAR"
                        ELSE IF Ln[76] = "2" THEN "J2K"
                        ELSE IF Ln[76] = "3" THEN "1950"
                        ELSE "None",
     track_position |-> TryInt(Slice(Ln, 76, 77)),
     astat          |-> TryInt(Slice(Ln, 79, 80)),
     site_tag       |-> TryInt(Slice(Ln, 80, 84)),
     spadoc_tag     |-> TryInt(Slice(Ln, 85, 90)),
     datetime       |-> dt]

----------------------------------------------------------------------------
(* pyb3/outputter.py *)

\* round-half-even of |v| * 10^r (np.round(np.abs(val), right), as an integer
\* count of units 10^-r)
RoundScaled(v, r) ==
    LET num == ScaledNum(v, r)
        den == ScaledDen(v, r)
        q   == num \div den
        rem == num % den
    IN  IF 2 * rem > den \/ (2 * rem = den /\ q % 2 = 1) THEN q + 1 ELSE q

\* int(x) of a float: truncation toward zero
NumToInt(v) ==
    LET q == ScaledNum(v, 0) \div ScaledDen(v, 0) IN IF NumNeg(v) THEN -q ELSE q

\* SignChar with the alphabet started one letter early
SignChar_shifted(c) ==
    CASE c = "0" -> "-" [] c = "1" -> "I" [] c = "2" -> "J" [] c = "3" -> "K"
      [] c = "4" -> "L" [] c = "5" -> "M" [] c = "6" -> "N" [] c = "7" -> "O"
      [] c = "8" -> "P" [] c = "9" -> "Q"

\* the first character of a negative field: '-' over a leading 0, else the letter
SignChar(c) ==
    CASE c = "0" -> "-" [] c = "1" -> "J" [] c = "2" -> "K" [] c = "3" -> "L"
      [] c = "4" -> "M" [] c = "5" -> "N" [] c = "6" -> "O" [] c = "7" -> "P"
      [] c = "8" -> "Q" [] c = "9" -> "R"

B3_float_field(val, left, right) ==
    LET neg == NumNeg(val)
        m   == RoundScaled(val, right)
        \* l, r = '{:.20f}'.format(val).split('.')
        l0  == NatStr(m \div Pow10(right))
        r0  == ljust(rjust(NatStr(m % Pow10(right)), right, "0"), 20, "0")
        l   == rjust(LastK(l0, left), left, "0")
        r   == ljust(Slice(r0, 0, right), right, "0")
    IN  IF ~neg THEN l \o r
        ELSE <<SignChar(l[1])>> \o SliceFrom(l, 1) \o r

\* datetm.strftime('%y%j%H%M%S%f')[:14]
makeDate(datetm) ==
    Slice(FormatD(datetm.year % 100, 2) \o FormatD(datetm.doy, 3)
            \o FormatD(datetm.hour, 2) \o FormatD(datetm.minute, 2)
            \o FormatD(datetm.second, 2) \o FormatD(datetm.microsecond, 6),
          0, 14)

\* days from the epoch 1949-12-31 to day doy of year y
RECURSIVE DayNumber(_, _)
DayNumber(y, doy) == IF y <= 1950 THEN doy ELSE DaysInYear(y - 1) + DayNumber(y - 1, doy)

\* astropy.time.Time(datetime).jd - jd1950: days since 1949-12-31T00:00:00,
\* kept exact as whole days, seconds of the day and microseconds
ToDs50(dt) ==
    [days   |-> DayNumber(dt.year, dt.doy),
     secs   |-> dt.hour * 3600 + dt.minute * 60 + dt.second,
     micros |-> dt.microsecond]

RECURSIVE YearDay(_, _)
YearDay(y, days) ==
    IF days > DaysInYear(y) THEN YearDay(y + 1, days - DaysInYear(y))
    ELSE [year |-> y, doy |-> days]

ds50ToDateTime(flt) ==
    LET yd == YearDay(1950, flt.days) IN
    [year        |-> yd.year,
     doy         |-> yd.doy,
     hour        |-> flt.secs \div 3600,
     minute      |-> (flt.secs % 3600) \div 60,
     second      |-> flt.secs % 60,
     microsecond |-> flt.micros]

\* ts[a:b] = s on a list: the slice is replaced, the list may grow or shrink
SetSlice(ts, a, b, s) == Slice(ts, 0, a) \o s \o SliceFrom(ts, Max(a, b))
\* ts[i] = c
SetItem(ts, i, c) == [ts EXCEPT ![i + 1] = c]

\* makeCommon that always writes the record's own time
makeCommon_owntime(obdata, datetm) ==
    LET ts0 == Repeat(" ", 75)
        ts1 == SetItem(ts0, 0, "U")
        ts2 == SetSlice(ts1, 1, 6, FormatD(NumToInt(obdata["XA_OBS_SATNUM"]), 5))
        ts3 == SetSlice(ts2, 6, 9, FormatD(NumToInt(obdata["XA_OBS_SENNUM"]), 3))
    IN  SetSlice(ts3, 9, 23, makeDate(ds50ToDateTime(obdata["XA_OBS_DS50UTC"])))

makeCommon(obdata, datetm) ==
    LET ts0 == Repeat(" ", 75)
        ts1 == SetItem(ts0, 0, "U")
        ts2 == SetSlice(ts1, 1, 6, FormatD(NumToInt(obdata["XA_OBS_SATNUM"]), 5))
        ts3 == SetSlice(ts2, 6, 9, FormatD(NumToInt(obdata["XA_OBS_SENNUM"]), 3))
    IN  IF datetm = None
        THEN SetSlice(ts3, 9, 23, makeDate(ds50ToDateTime(obdata["XA_OBS_DS50UTC"])))
        ELSE SetSlice(ts3, 9, 23, makeDate(datetm))

makeEl(el) == B3_float_field(el, 2, 4)

\* The largest binary64 value below 360 (360 - 2^-44): the one angle of
\* [0, 360) whose sum with 360 rounds to 720.0.
PrevFloat360 == [n |-> 36, d |-> 1, e |-> 1, ulps |-> -1]
IsPrevFloat(x) == "ulps" \in DOMAIN x

\* (dec + 360) % 360 as a count of 1/den degrees.  The sum is rounded to
\* binary64: 720 - 2^-44 lies midway between 720 - 2^-43 and 720 and goes to
\* the even one, 720.0, whose remainder is 0.0; every other sum keeps its
\* place between the multiples of 360.
Wrap360(dec, num, den) ==
    IF IsPrevFloat(dec) THEN 0 ELSE (num + 360 * den) % (360 * den)

\* makeRA with the seconds formatted '{:4.1f}': padded with a space
makeRA_spacepad(dec) ==
    LET den   == IF dec.e >= 0 THEN dec.d ELSE dec.d * Pow10(-dec.e)
        num   == IF dec.e >= 0 THEN dec.n * Pow10(dec.e) ELSE dec.n
        lock  == Wrap360(dec, num, den)
        hours == lock \div (15 * den)
        frac  == lock - 15 * den * hours
        minut == (4 * frac) \div den
        frac4 == 4 * frac - minut * den
        qs    == (600 * frac4) \div den
        rs    == (600 * frac4) % den
        tenths == IF 2 * rs > den \/ (2 * rs = den /\ qs % 2 = 1) THEN qs + 1 ELSE qs
        secsS == rjust(NatStr(tenths \div 10), 2, " ") \o NatStr(tenths % 10)
    IN  FormatD(hours, 2) \o FormatD(minut, 2) \o secsS

makeRA(dec) ==
    LET den   == IF dec.e >= 0 THEN dec.d ELSE dec.d * Pow10(-dec.e)
        num   == IF dec.e >= 0 THEN dec.n * Pow10(dec.e) ELSE dec.n
        \* dec = (dec + 360) % 360, as a count of 1/den degrees
        lock  == Wrap360(dec, num, den)
        hours == lock \div (15 * den)
        frac  == lock - 15 * den * hours
        \* minut = int(frac / 0.25); frac -= 0.25 * minut, in 1/(4 den) degrees
        minut == (4 * frac) \div den
        frac4 == 4 * frac - minut * den
        \* '{:04.1f}'.format(frac * 86400./360.): tenths of a second, half-even
        qs    == (600 * frac4) \div den
        rs    == (600 * frac4) % den
        tenths == IF 2 * rs > den \/ (2 * rs = den /\ qs % 2 = 1) THEN qs + 1 ELSE qs
        secsS == rjust(NatStr(tenths \div 10), 2, "0") \o NatStr(tenths % 10)
    IN  FormatD(hours, 2) \o FormatD(minut, 2) \o secsS

\* floor(log10(v)) for v > 0
RECURSIVE LogUp(_, _)
LogUp(n, d) == IF n >= d THEN 0 ELSE 1 + LogUp(n * 10, d)
Log10Floor(v) ==
    IF v.n >= v.d THEN Len(NatStr(v.n \div v.d)) - 1 + v.e
    ELSE v.e - LogUp(v.n, v.d)

\* int(np.log10(v)) for v > 0: int() truncates toward zero
IntLog10(v) ==
    LET lg == Log10Floor(v) IN
    IF lg >= 0 \/ (v.n = 1 /\ v.d = 1) THEN lg ELSE lg + 1

\* str(x) of a non-negative decimal float in positional notation, split at the
\* point: <<integer digits, fraction digits>>
StrSplit(v) ==
    IF v.e >= 0 THEN <<NatStr(v.n) \o Repeat("0", v.e), <<"0">> >>
    ELSE LET ds == rjust(NatStr(v.n), 1 - v.e, "0")
         IN  <<SubSeq(ds, 1, Len(ds) + v.e), SubSeq(ds, Len(ds) + v.e + 1, Len(ds))>>

\* makeRange with the exponent limit 5 it had before it was raised to 9
makeRange_limit5(rangeval) ==
    IF rangeval.n <= 0 THEN Raise("ValueError")
    ELSE LET exp    == IntLog10(rangeval)
             expval == exp - 1
             sp     == StrSplit(rangeval)
         IN  IF expval < 0 \/ expval > 5 THEN Raise("Exception")
             ELSE [rgval |-> Slice(ljust(sp[1] \o sp[2], 7, "0"), 0, 7),
                   rgexp |-> IntStr(expval)]

makeRange(rangeval) ==
    IF rangeval.n <= 0 THEN Raise("ValueError")   \* int(nan), int(-inf)
    ELSE LET exp    == IntLog10(rangeval)
             expval == exp - 1
             sp     == StrSplit(rangeval)
         IN  IF expval < 0 \/ expval > 9 THEN Raise("Exception")
             ELSE [rgval |-> Slice(ljust(sp[1] \o sp[2], 7, "0"), 0, 7),
                   rgexp |-> IntStr(expval)]

fortran9p3(flt) ==
    \* str() switches to exponent notation, which has no '.' to split at
    IF flt.n # 0 /\ (Log10Floor(NumAbs(flt)) < -4 \/ Log10Floor(NumAbs(flt)) >= 16)
    THEN Raise("ValueError")
    ELSE LET sp == StrSplit(NumAbs(flt))
             l  == rjust(LastK(sp[1], 6), 6, "0")
             r  == ljust(Slice(sp[2], 0, 3), 3, "0")
         IN  IF NumNeg(flt) THEN Str(<<"-">> \o SliceFrom(l, 1) \o r)
             ELSE Str(<<"+">> \o SliceFrom(l, 1) \o r)

\* the columns every decimal-angle type writes
AnglesDecimal(ts, data) ==
    SetSlice(SetSlice(ts, 23, 29, makeEl(data["XA_OBS_ELORDEC"])),
             30, 37, B3_float_field(data["XA_OBS_AZORRA"], 3, 4))

\* rgval, rgexp = makeRange(...); ts[38:45] = rgval; ts[45] = rgexp
RangeColumns(ts, rg) == SetItem(SetSlice(ts, 38, 45, rg.rgval), 45, rg.rgexp[1])

maketype1(obdata, datetm) ==
    LET ts == AnglesDecimal(makeCommon(obdata, datetm), obdata)
    IN  Str(SetItem(ts, 74, "1"))

maketype2(data, datetm) ==
    LET rg == makeRange(data["XA_OBS_RANGE"]) IN
    IF IsRaise(rg) THEN rg
    ELSE LET ts == RangeColumns(AnglesDecimal(makeCommon(data, datetm), data), rg)
         IN  Str(SetItem(ts, 74, "2"))

maketype3(data, datetm) ==
    LET rg == makeRange(data["XA_OBS_RANGE"]) IN
    IF IsRaise(rg) THEN rg
    ELSE LET ts0 == RangeColumns(AnglesDecimal(makeCommon(data, datetm), data), rg)
             ts  == SetSlice(ts0, 47, 54, B3_float_field(data["XA_OBS_RANGERATE"], 2, 5))
         IN  Str(SetItem(ts, 74, "3"))

maketype4(data, datetm) ==
    LET rg == makeRange(data["XA_OBS_RANGE"]) IN
    IF IsRaise(rg) THEN rg
    ELSE LET ts0 == RangeColumns(AnglesDecimal(makeCommon(data, datetm), data), rg)
             ts1 == SetSlice(ts0, 47, 54, B3_float_field(data["XA_OBS_RANGERATE"], 2, 5))
             ts2 == SetSlice(ts1, 55, 60, B3_float_field(data["XA_OBS_ELRATE"], 1, 4))
             ts3 == SetSlice(ts2, 61, 66, B3_float_field(data["XA_OBS_AZRATE"], 1, 4))
             ts  == SetSlice(ts3, 67, 72, B3_float_field(data["XA_OBS_RANGEACCEL"], 1, 4))
         IN  Str(SetItem(ts, 74, "4"))

maketype5(data, datetm) ==
    LET ts0 == makeCommon(data, datetm)
        ts1 == SetSlice(ts0, 23, 29, B3_float_field(data["XA_OBS_ELORDEC"], 2, 4))
        ts  == SetSlice(ts1, 30, 37, makeRA(data["XA_OBS_AZORRA"]))
    IN  Str(SetItem(ts, 74, "5"))

maketype6(data, datetm) ==
    LET rg == makeRange(data["XA_OBS_RANGE"]) IN
    IF IsRaise(rg) THEN rg
    ELSE Str(SetItem(RangeColumns(makeCommon(data, datetm), rg), 74, "6"))

maketype9(data, datetm) ==
    LET x == fortran9p3(data["XA_OBS_POSX"])
        y == fortran9p3(data["XA_OBS_POSY"])
        z == fortran9p3(data["XA_OBS_POSZ"])
    IN  IF IsRaise(x) THEN x ELSE IF IsRaise(y) THEN y ELSE IF IsRaise(z) THEN z
        ELSE LET ts0 == makeCommon(data, datetm)
                 ts1 == SetSlice(ts0, 23, 29, makeEl(data["XA_OBS_ELORDEC"]))
                 ts2 == SetSlice(ts1, 30, 37, makeRA(data["XA_OBS_AZORRA"]))
                 ts3 == SetSlice(ts2, 38, 45, Repeat("0", 7))
                 ts4 == SetSlice(ts3, 46, 55, x.str)
                 ts5 == SetSlice(ts4, 55, 64, y.str)
                 ts  == SetSlice(ts5, 64, 73, z.str)
             IN  Str(SetItem(ts, 74, "9"))

\* makeN(data, datetm) + equinox
PlusEquinox(made, equinox) == IF IsRaise(made) THEN made ELSE Str(made.str \o equinox)

b3_dispatcher(data, datetm, equinox) ==
    LET t == data["XA_OBS_OBSTYPE"] IN
    IF Len(equinox) # 1 THEN Raise("AssertionError")
    ELSE IF t = Float(1) THEN PlusEquinox(maketype1(data, datetm), equinox)
    ELSE IF t = Float(2) THEN PlusEquinox(maketype2(data, datetm), equinox)
    ELSE IF t = Float(3) THEN PlusEquinox(maketype3(data, datetm), equinox)
    ELSE IF t = Float(4) THEN PlusEquinox(maketype4(data, datetm), equinox)
    ELSE IF t = Float(5) THEN PlusEquinox(maketype5(data, datetm), equinox)
    ELSE IF t = Float(6) THEN PlusEquinox(maketype6(data, datetm), equinox)
    ELSE IF t = Float(9) THEN PlusEquinox(maketype9(data, datetm), equinox)
    ELSE None

\* class EqVals
Equinox == [TEME |-> <<"0">>, MEME |-> <<"1">>, J2K |-> <<"2">>, B1950 |-> <<"3">>]

----------------------------------------------------------------------------
(* pyb3/B3.py, continued *)

\* `if x:` on an int-or-None attribute
Truthy(x) == x # None /\ x.int # 0

toAstrostdDict(self) ==
    IF self.classification \notin DOMAIN classmap THEN Raise("KeyError")
    ELSE
    [v \in as_fields |->
        CASE v = "XA_OBS_SECCLASS" -> classmap[self.classification]
          [] v = "XA_OBS_DS50UTC"  -> ToDs50(self.datetime)
          [] v = "XA_OBS_SATNUM"   -> Float(self.satid)
          [] v = "XA_OBS_OBSTYPE"  -> Float(self.obstype)
          [] v = "XA_OBS_SENNUM"   -> Float(self.sensid)
          [] v = "XA_OBS_ELORDEC" /\ self.obstype \in {1, 2, 3, 4, 5, 8, 9} -> self.eledec
          [] v = "XA_OBS_AZORRA" /\ self.obstype \in {1, 2, 3, 4, 5, 8, 9}  -> self.azra
          [] v = "XA_OBS_RANGE" /\ self.obstype \in {2, 3, 4, 6}           -> self.range
          [] v = "XA_OBS_RANGERATE" /\ self.obstype \in {3, 4, 0}          -> self.rngrate
          [] v = "XA_OBS_AZRATE" /\ self.obstype = 4                      -> self.azrate
          [] v = "XA_OBS_ELRATE" /\ self.obstype = 4                      -> self.elrate
          [] v = "XA_OBS_POSX" /\ self.obstype \in {8, 9}                  -> self.ecfx
          [] v = "XA_OBS_POSY" /\ self.obstype \in {8, 9}                  -> self.ecfy
          [] v = "XA_OBS_POSZ" /\ self.obstype \in {8, 9}                  -> self.ecfz
          [] v = "XA_OBS_SITETAG" /\ Truthy(self.site_tag)       -> Float(self.site_tag.int)
          [] v = "XA_OBS_SPADOCTAG" /\ Truthy(self.spadoc_tag)   -> Float(self.spadoc_tag.int)
          [] v = "XA_OBS_TRACKIND" /\ Truthy(self.track_position) -> Float(self.track_position.int)
          [] v = "XA_OBS_ASTAT" /\ Truthy(self.astat)            -> Float(self.astat.int)
          [] OTHER -> Float(0)]

toB3(self) ==
    LET d == toAstrostdDict(self) IN
    IF IsRaise(d) THEN d ELSE b3_dispatcher(d, None, Equinox.TEME)

----------------------------------------------------------------------------
(* The lines handed to B3(L): well-formed lines of every observation type,  *)
(* assembled column by column, and malformed variants of them.              *)

ObsTypes == {1, 2, 3, 4, 5, 6, 8, 9}

Classifications == {"U", "C", "S"}

IdOpts ==
    {[sat |-> <<"0", "0", "0", "0", "5">>, sen |-> <<"0", "0", "1">>, eq |-> " ", trail |-> <<>>],
     [sat |-> <<"9", "9", "9", "9", "9">>, sen |-> <<"9", "9", "9">>, eq |-> "2",
      trail |-> <<"3", " ", " ", "1", "0", "0", "4", "2", " ", "1", "2", "3", "4", "5">>]}

\* YY DDD HH MM SS mmm
DateOpts ==
    {<<"4", "9", "0", "0", "1", "0", "0", "0", "0", "0", "0", "0", "0", "0">>,
     <<"5", "0", "3", "6", "5", "2", "3", "5", "9", "5", "9", "1", "2", "3">>,
     <<"2", "1", "0", "4", "5", "1", "2", "3", "4", "5", "6", "0", "4", "5">>,
     <<"9", "9", "2", "0", "0", "0", "1", "0", "2", "0", "3", "0", "0", "7">>}

\* el: [23,29) left=2/right=4; az: [30,37) left=3/right=4; ra: [30,37) HHMMSSS
AngleOpts ==
    {[el |-> <<"1", "2", "3", "4", "5", "6">>, az |-> <<"1", "2", "3", "4", "5", "6", "7">>, ra |-> <<"1", "2", "3", "4", "5", "6", "7">>],
     [el |-> <<"-", "1", "2", "3", "4", "5">>, az |-> <<"0", "0", "0", "0", "0", "0", "0">>, ra |-> <<"0", "0", "0", "0", "0", "0", "0">>],
     [el |-> <<"J", "2", "3", "4", "5", "6">>, az |-> <<"3", "5", "9", "9", "9", "9", "9">>, ra |-> <<"2", "3", "5", "9", "5", "9", "9">>]}

\* mantissa [38,45) and exponent digit [45,46)
RangeOpts ==
    {[rg |-> <<"1", "2", "3", "4", "5", "6", "7">>, ex |-> "2"],
     [rg |-> <<"1", "0", "0", "0", "0", "0", "0">>, ex |-> "0"]}

\* range rate [47,54), elevation rate [55,60), azimuth rate [61,66),
\* range acceleration [67,72)
RateOpts ==
    {[rr |-> <<"0", "1", "2", "3", "4", "5", "6">>, er |-> <<"0", "1", "2", "3", "4">>, ar |-> <<"0", "0", "0", "0", "0">>,
      ra |-> <<"0", "5", "0", "0", "0">>],
     [rr |-> <<"J", "1", "2", "3", "4", "5", "6">>, er |-> <<"-", "1", "2", "3", "4">>, ar |-> <<"K", "2", "3", "4", "5">>,
      ra |-> <<"-", "5", "0", "0", "0">>]}

\* Cartesian x [46,55), y [55,64), z [64,73)
EcfOpts ==
    {[x |-> <<"+", "0", "0", "1", "2", "3", "4", "5", "6">>, y |-> <<"-", "1", "2", "3", "4", "5", "6", "7", "8">>, z |-> <<"+", "0", "0", "0", "0", "0", "0", "0", "0">>],
     [x |-> <<"-", "0", "0", "0", "0", "0", "0", "0", "1">>, y |-> <<"+", "9", "9", "9", "9", "9", "9", "9", "9">>, z |-> <<"-", "0", "6", "3", "7", "8", "1", "3", "7">>]}

TypeChar(t) == DigitChars[t + 1]

WellFormedLine(t, cls, id, date, ang, rng, rate, ecf) ==
    LET c0 == SetItem(Repeat(" ", 76), 0, cls)
        c1 == SetSlice(SetSlice(SetSlice(c0, 1, 6, id.sat), 6, 9, id.sen), 9, 23, date)
        c2 == IF t \in {1, 2, 3, 4, 5, 8, 9} THEN SetSlice(c1, 23, 29, ang.el) ELSE c1
        c3 == IF t \in {1, 2, 3, 4, 8} THEN SetSlice(c2, 30, 37, ang.az)
              ELSE IF t \in {5, 9} THEN SetSlice(c2, 30, 37, ang.ra) ELSE c2
        c4 == IF t \in {2, 3, 4, 6}
              THEN SetItem(SetSlice(c3, 38, 45, rng.rg), 45, rng.ex) ELSE c3
        c5 == IF t \in {3, 4} THEN SetSlice(c4, 47, 54, rate.rr) ELSE c4
        c6 == IF t = 4
              THEN SetSlice(SetSlice(SetSlice(c5, 55, 60, rate.er), 61, 66, rate.ar),
                            67, 72, rate.ra)
              ELSE c5
        c7 == IF t \in {8, 9}
              THEN SetSlice(SetSlice(SetSlice(c6, 46, 55, ecf.x), 55, 64, ecf.y),
                            64, 73, ecf.z)
              ELSE c6
    IN  SetItem(SetItem(c7, 74, TypeChar(t)), 75, id.eq) \o id.trail

Malformations ==
    {"none", "short", "cut", "class", "type7", "type0", "typeX", "satid", "sensid",
     "date", "doy", "blankrange", "badrange"}

Malform(Ln, how) ==
    CASE how = "none"       -> Ln
      [] how = "short"      -> Slice(Ln, 0, 75)
      [] how = "cut"        -> Slice(Ln, 0, 40)
      [] how = "class"      -> SetItem(Ln, 0, "X")
      [] how = "type7"      -> SetItem(Ln, 74, "7")
      [] how = "type0"      -> SetItem(Ln, 74, "0")
      [] how = "typeX"      -> SetItem(Ln, 74, "X")
      [] how = "satid"      -> SetItem(Ln, 3, "X")
      [] how = "sensid"     -> SetItem(Ln, 7, "X")
      [] how = "date"       -> SetItem(Ln, 15, "X")
      [] how = "doy"        -> SetSlice(Ln, 11, 14, <<"0", "0", "0">>)
      [] how = "blankrange" -> SetSlice(Ln, 38, 46, Repeat(" ", 8))
      [] how = "badrange"   -> SetItem(Ln, 40, "X")

\* L is one of the lines above, or was not passed in
InputLine(Ln) ==
    \/ \E t \in ObsTypes, cls \in Classifications, id \in IdOpts, date \in DateOpts,
          ang \in AngleOpts, rng \in RangeOpts, rate \in RateOpts, ecf \in EcfOpts,
          how \in Malformations :
          Ln = Malform(WellFormedLine(t, cls, id, date, ang, rng, rate, ecf), how)
    \/ Ln = None

----------------------------------------------------------------------------
(* B3(L), then toAstrostdDict() and toB3() on the object *)

IdleGen   == gdata = NotYet /\ gdatetm = None /\ geq = <<>> /\ gout = NotYet /\ gplain = NotYet
IdleField == fval = Float(0) /\ ffield = "none" /\ fenc = NotYet /\ fdec = NotYet
IdleRange == rval = Float(0) /\ renc = NotYet /\ rdec = NotYet
IdleRA    == aval = Float(0) /\ aenc = NotYet /\ adec = NotYet
IdleLine  == L = <<>> /\ rec = NotYet /\ asd = NotYet /\ out = NotYet

Init ==
    /\ InputLine(L)
    /\ rec = NotYet /\ asd = NotYet /\ out = NotYet
    /\ IdleGen /\ IdleField /\ IdleRange /\ IdleRA

\* B3.__init__
Construct ==
    /\ rec = NotYet
    /\ rec' = IF L = None THEN Raise("Exception") ELSE parse(L)
    /\ UNCHANGED <<L, asd, out, genVars, fieldVars, rangeVars, raVars>>

Constructed == rec # NotYet /\ ~IsRaise(rec)

ToAstrostdDict ==
    /\ Constructed
    /\ asd = NotYet
    /\ asd' = toAstrostdDict(rec)
    /\ UNCHANGED <<L, rec, out, genVars, fieldVars, rangeVars, raVars>>

ToB3 ==
    /\ Constructed
    /\ out = NotYet
    /\ out' = toB3(rec)
    /\ UNCHANGED <<L, rec, asd, genVars, fieldVars, rangeVars, raVars>>

Next == Construct \/ ToAstrostdDict \/ ToB3

Spec == Init /\ [][Next]_vars

----------------------------------------------------------------------------
(* b3_dispatcher called on a record mapping assembled by the caller *)

GenTypes == ObsTypes \cup {7}

GenIds == {[sat |-> 5, sen |-> 1], [sat |-> 99999, sen |-> 999],
           [sat |-> 100000, sen |-> 999], [sat |-> 5, sen |-> 1000]}

GenAngles ==
    {[el |-> NumNorm(123456, 1, -4),  az |-> NumNorm(1234567, 1, -4)],
     [el |-> NumNorm(-123456, 1, -4), az |-> NumNorm(3599999, 1, -4)],
     [el |-> NumNorm(1234567, 1, -4), az |-> NumNorm(12345678, 1, -4)]}

GenRanges == {NumNorm(1234567, 1, -3), NumNorm(55, 1, -1), NumNorm(1, 1, 11),
              NumNorm(123456789, 1, -1)}

GenRates ==
    {[rr |-> NumNorm(123456, 1, -5),   er |-> NumNorm(1234, 1, -4),
      ar |-> Float(0),                 ra |-> NumNorm(5, 1, -1)],
     [rr |-> NumNorm(-1234567, 1, -5), er |-> NumNorm(-1234, 1, -4),
      ar |-> NumNorm(-22345, 1, -4),   ra |-> NumNorm(-5, 1, -1)],
     [rr |-> NumNorm(1234, 1, -1),     er |-> NumNorm(125, 1, -1),
      ar |-> NumNorm(-125, 1, -1),     ra |-> Float(10)]}

GenEcf ==
    {[x |-> NumNorm(123456, 1, -3),    y |-> NumNorm(-12345678, 1, -3), z |-> Float(0)],
     [x |-> NumNorm(1234567891, 1, -3), y |-> NumNorm(-6378137, 1, -3),
      z |-> NumNorm(99999999, 1, -3)]}

GenDs50 == ToDs50([year |-> 2021, doy |-> 45, hour |-> 12, minute |-> 34,
                   second |-> 56, microsecond |-> 789000])

\* no override, the end of 1999, the start of 2000 with a sub-10 ms part, and
\* the record's own time
GenDatetm ==
    {None,
     [year |-> 1999, doy |-> 365, hour |-> 23, minute |-> 59, second |-> 59,
      microsecond |-> 999999],
     [year |-> 2000, doy |-> 1, hour |-> 0, minute |-> 0, second |-> 0,
      microsecond |-> 7999],
     [year |-> 2021, doy |-> 45, hour |-> 12, minute |-> 34, second |-> 56,
      microsecond |-> 789000]}

GenEquinox == {Equinox.TEME, Equinox.J2K, <<"J", "2", "K">>}

GenData(t, id, ang, rng, rate, ecf) ==
    [v \in as_fields |->
        CASE v = "XA_OBS_SECCLASS"   -> Float(1)
          [] v = "XA_OBS_DS50UTC"    -> GenDs50
          [] v = "XA_OBS_SATNUM"     -> Float(id.sat)
          [] v = "XA_OBS_SENNUM"     -> Float(id.sen)
          [] v = "XA_OBS_OBSTYPE"    -> Float(t)
          [] v = "XA_OBS_ELORDEC"    -> ang.el
          [] v = "XA_OBS_AZORRA"     -> ang.az
          [] v = "XA_OBS_RANGE"      -> rng
          [] v = "XA_OBS_RANGERATE"  -> rate.rr
          [] v = "XA_OBS_ELRATE"     -> rate.er
          [] v = "XA_OBS_AZRATE"     -> rate.ar
          [] v = "XA_OBS_RANGEACCEL" -> rate.ra
          [] v = "XA_OBS_POSX"       -> ecf.x
          [] v = "XA_OBS_POSY"       -> ecf.y
          [] v = "XA_OBS_POSZ"       -> ecf.z
          [] OTHER -> Float(0)]

InitGen ==
    /\ gdata \in {GenData(t, id, ang, rng, rate, ecf) :
                    t \in GenTypes, id \in GenIds, ang \in GenAngles,
                    rng \in GenRanges, rate \in GenRates, ecf \in GenEcf}
    /\ gdatetm \in GenDatetm
    /\ geq \in GenEquinox
    /\ gout = NotYet /\ gplain = NotYet
    /\ IdleLine /\ IdleField /\ IdleRange /\ IdleRA

Dispatch ==
    /\ gout = NotYet
    /\ gout' = b3_dispatcher(gdata, gdatetm, geq)
    /\ UNCHANGED <<gdata, gdatetm, geq, gplain, lineVars, fieldVars, rangeVars, raVars>>

\* the same call without the datetm argument
DispatchPlain ==
    /\ gout # NotYet /\ gplain = NotYet
    /\ gplain' = b3_dispatcher(gdata, None, geq)
    /\ UNCHANGED <<gdata, gdatetm, geq, gout, lineVars, fieldVars, rangeVars, raVars>>

NextGen == Dispatch \/ DispatchPlain

SpecGen == InitGen /\ [][NextGen]_vars

----------------------------------------------------------------------------
(* One sign-substituted field: B3_float_field encodes a value in the layout *)
(* of a wire field, and B3.parse decodes the columns it was written to.     *)

\* the layouts of maketype4 and the attributes parse reads them into
FloatFields == {"eledec", "azra", "rngrate", "elrate", "azrate", "rangeacc"}

FieldLayout(f) ==
    CASE f = "eledec"   -> [left |-> 2, right |-> 4, lo |-> 23, hi |-> 29]
      [] f = "azra"     -> [left |-> 3, right |-> 4, lo |-> 30, hi |-> 37]
      [] f = "rngrate"  -> [left |-> 2, right |-> 5, lo |-> 47, hi |-> 54]
      [] f = "elrate"   -> [left |-> 1, right |-> 4, lo |-> 55, hi |-> 60]
      [] f = "azrate"   -> [left |-> 1, right |-> 4, lo |-> 61, hi |-> 66]
      [] f = "rangeacc" -> [left |-> 1, right |-> 4, lo |-> 67, hi |-> 72]

FieldWidth(f) == FieldLayout(f).left + FieldLayout(f).right

MaxTail == 16
MaxBack == 6

\* magnitudes below 10^left, in units of 10^-(right+1): every leading digit,
\* the smallest tails and the tails nearest to a carry
FieldMagnitudes(f) ==
    {lead * Pow10(FieldWidth(f)) + tail :
        lead \in 0..9,
        tail \in (0..MaxTail) \cup {Pow10(FieldWidth(f)) - j : j \in 1..MaxBack}}

FieldValues(f) ==
    {NumNorm(sgn * k, 1, -(FieldLayout(f).right + 1)) :
        sgn \in {1, -1}, k \in FieldMagnitudes(f)}

\* a well-formed type-4 line to carry the field
CarrierLine ==
    LET id   == CHOOSE i \in IdOpts : i.trail = <<>>
        date == CHOOSE d \in DateOpts : d[1] = "5"
        ang  == CHOOSE a \in AngleOpts : a.el[1] = "1"
        rng  == CHOOSE r \in RangeOpts : r.ex = "2"
        rate == CHOOSE r \in RateOpts : r.rr[1] = "0"
        ecf  == CHOOSE e \in EcfOpts : e.x[1] = "+"
    IN  WellFormedLine(4, "U", id, date, ang, rng, rate, ecf)

Attribute(self, f) ==
    CASE f = "eledec"   -> self.eledec
      [] f = "azra"     -> self.azra
      [] f = "rngrate"  -> self.rngrate
      [] f = "elrate"   -> self.elrate
      [] f = "azrate"   -> self.azrate
      [] f = "rangeacc" -> self.rangeacc
      [] f = "range"    -> self.range

\* B3(line).<attribute> for the carrier line with text in columns [lo, hi)
DecodeColumns(text, lo, hi, f) ==
    LET self == parse(SetSlice(CarrierLine, lo, hi, text))
    IN  IF IsRaise(self) THEN self ELSE Attribute(self, f)

InitField ==
    /\ ffield \in FloatFields
    /\ fval \in FieldValues(ffield)
    /\ fenc = NotYet /\ fdec = NotYet
    /\ IdleLine /\ IdleGen /\ IdleRange /\ IdleRA

EncodeField ==
    /\ fenc = NotYet
    /\ fenc' = Str(B3_float_field(fval, FieldLayout(ffield).left,
                                  FieldLayout(ffield).right))
    /\ UNCHANGED <<fval, ffield, fdec, lineVars, genVars, rangeVars, raVars>>

DecodeField ==
    /\ fenc # NotYet /\ fdec = NotYet
    /\ fdec' = DecodeColumns(fenc.str, FieldLayout(ffield).lo,
                             FieldLayout(ffield).hi, ffield)
    /\ UNCHANGED <<fval, ffield, fenc, lineVars, genVars, rangeVars, raVars>>

NextField == EncodeField \/ DecodeField

SpecField == InitField /\ [][NextField]_vars

----------------------------------------------------------------------------
(* The exponent-packed range: makeRange encodes, B3.parse decodes *)

MaxRangeDigits == 8
MaxRangeExp == 12
MaxRangeFrac == 6

\* mantissas of 1 to MaxRangeDigits digits: 1, 12, 123, ... and 9, 99, 999, ...
\* and 5, 10...05 (a zero inside), each scaled by every power of ten in reach
RangeMantissas ==
    UNION {{DigitsVal(SubSeq(<<"1", "2", "3", "4", "5", "6", "7", "8", "9", "1">>, 1, k)),
            Pow10(k) - 1, Pow10(k - 1) + 5} : k \in 1..MaxRangeDigits}

RangeValues ==
    {NumNorm(m, 1, e) : m \in RangeMantissas, e \in (-MaxRangeFrac)..MaxRangeExp}
      \cup {Float(0), Float(-1)}

InitRange ==
    /\ rval \in RangeValues
    /\ renc = NotYet /\ rdec = NotYet
    /\ IdleLine /\ IdleGen /\ IdleField /\ IdleRA

MakeRange ==
    /\ renc = NotYet
    /\ renc' = makeRange(rval)
    /\ UNCHANGED <<rval, rdec, lineVars, genVars, fieldVars, raVars>>

DecodeRange ==
    /\ renc # NotYet /\ ~IsRaise(renc) /\ rdec = NotYet
    /\ rdec' = DecodeColumns(renc.rgval \o renc.rgexp, 38, 46, "range")
    /\ UNCHANGED <<rval, renc, lineVars, genVars, fieldVars, raVars>>

NextRange == MakeRange \/ DecodeRange

SpecRange == InitRange /\ [][NextRange]_vars

----------------------------------------------------------------------------
(* The sexagesimal angle: makeRA encodes, B3.parse decodes *)

MaxRABack == 24
MaxRAFwd == 24

\* angles in units of 10^-5 degree (a step of the field is 41.67 of them):
\* 0, one minute of time, one hour, 23 hours and two angles in between
RABases == {0, 25000, 1500000, 12345678, 18000000, 34500000}

\* the angles around each base, and the last ones below 360
RATicks ==
    {k \in {b + t : b \in RABases, t \in (-MaxRABack)..MaxRAFwd} : k >= 0}
      \cup {36000000 - j : j \in 1..MaxRABack}

RAValues == {NumNorm(k, 1, -5) : k \in RATicks} \cup {PrevFloat360}

\* the carrier with the type digit of a sexagesimal type
CarrierLineRA == SetItem(CarrierLine, 74, "5")

InitRA ==
    /\ aval \in RAValues
    /\ aenc = NotYet /\ adec = NotYet
    /\ IdleLine /\ IdleGen /\ IdleField /\ IdleRange

MakeRA ==
    /\ aenc = NotYet
    /\ aenc' = Str(makeRA(aval))
    /\ UNCHANGED <<aval, adec, lineVars, genVars, fieldVars, rangeVars>>

\* B3(line).azra for the carrier line with aenc in columns [30, 37)
DecodeRA ==
    /\ aenc # NotYet /\ adec = NotYet
    /\ adec' = LET self == parse(SetSlice(CarrierLineRA, 30, 37, aenc.str))
               IN  IF IsRaise(self) THEN self ELSE self.azra
    /\ UNCHANGED <<aval, aenc, lineVars, genVars, fieldVars, rangeVars>>

NextRA == MakeRA \/ DecodeRA

SpecRA == InitRA /\ [][NextRA]_vars

----------------------------------------------------------------------------
(* The wire format, as the properties below read it *)

SameColumns(a, b, lo, hi) == Len(a) >= hi /\ Len(b) >= hi /\ Slice(a, lo, hi) = Slice(b, lo, hi)

SignLetters == {"J", "K", "L", "M", "N", "O", "P", "Q", "R"}

\* a sign-substituted fixed-magnitude field
IsSignedField(s) ==
    /\ s # <<>>
    /\ IsDigit(s[1]) \/ s[1] = "-" \/ s[1] \in SignLetters
    /\ AllDigits(Tail(s))

IsCartesianField(s) == Len(s) = 9 /\ s[1] \in {"+", "-"} /\ AllDigits(Tail(s))

IsSexagesimalField(s) ==
    /\ Len(s) = 7 /\ AllDigits(s)
    /\ DigitsVal(Slice(s, 0, 2)) < 24
    /\ DigitsVal(Slice(s, 2, 4)) < 60
    /\ DigitsVal(Slice(s, 4, 7)) < 600

\* date columns YY DDD HH MM SS mmm with in-range values
DateInRange(Ln) ==
    /\ Len(Ln) >= 23
    /\ AllDigits(Slice(Ln, 9, 23))
    /\ LET yy == DigitsVal(Slice(Ln, 9, 11))
           y  == IF yy < 50 THEN 2000 + yy ELSE 1900 + yy
       IN  DigitsVal(Slice(Ln, 11, 14)) \in 1..DaysInYear(y)
    /\ DigitsVal(Slice(Ln, 14, 16)) < 24
    /\ DigitsVal(Slice(Ln, 16, 18)) < 60
    /\ DigitsVal(Slice(Ln, 18, 20)) < 60

\* the dispatch table: the columns of the optional fields each type defines
DefinedColumns(t) ==
    (IF t \in {1, 2, 3, 4, 5, 8, 9} THEN {<<23, 29>>, <<30, 37>>} ELSE {})
      \cup (IF t \in {2, 3, 4, 6} THEN {<<38, 46>>} ELSE {})
      \cup (IF t \in {3, 4} THEN {<<47, 54>>} ELSE {})
      \cup (IF t = 4 THEN {<<55, 60>>, <<61, 66>>, <<67, 72>>} ELSE {})
      \cup (IF t \in {8, 9} THEN {<<46, 55>>, <<55, 64>>, <<64, 73>>} ELSE {})

\* the dispatch table: the attributes of the optional fields each type defines
DefinedAttributes(t) ==
    (IF t \in {1, 2, 3, 4, 5, 8, 9} THEN {"eledec", "azra"} ELSE {})
      \cup (IF t \in {2, 3, 4, 6} THEN {"range"} ELSE {})
      \cup (IF t \in {3, 4} THEN {"rngrate"} ELSE {})
      \cup (IF t = 4 THEN {"elrate", "azrate", "rangeacc"} ELSE {})
      \cup (IF t \in {8, 9} THEN {"ecfx", "ecfy", "ecfz"} ELSE {})

OptionalAttributes ==
    {"eledec", "azra", "range", "rngrate", "elrate", "azrate", "rangeacc",
     "ecfx", "ecfy", "ecfz"}

AttributeOf(self, f) ==
    CASE f = "ecfx" -> self.ecfx [] f = "ecfy" -> self.ecfy [] f = "ecfz" -> self.ecfz
      [] OTHER -> Attribute(self, f)

IsLine(Ln) == Ln # None

LineType(Ln) == DigitVal(Ln[75])

\* a valid B3 line of a supported observation type
ValidLine(Ln) ==
    /\ IsLine(Ln)
    /\ Len(Ln) >= 76
    /\ Ln[1] \in Classifications
    /\ AllDigits(Slice(Ln, 1, 9))
    /\ DateInRange(Ln)
    /\ IsDigit(Ln[75]) /\ LineType(Ln) \in ObsTypes
    /\ Ln[76] \in {" ", "0", "1", "2", "3"}
    /\ LET t == LineType(Ln) IN
       /\ t \in {1, 2, 3, 4, 5, 8, 9} => IsSignedField(Slice(Ln, 23, 29))
       /\ t \in {1, 2, 3, 4, 8} => IsSignedField(Slice(Ln, 30, 37))
       /\ t \in {5, 9} => IsSexagesimalField(Slice(Ln, 30, 37))
       /\ t \in {2, 3, 4, 6} => AllDigits(Slice(Ln, 38, 46)) /\ Ln[39] # "0"
       /\ t \in {3, 4} => IsSignedField(Slice(Ln, 47, 54))
       /\ t = 4 => /\ IsSignedField(Slice(Ln, 55, 60))
                   /\ IsSignedField(Slice(Ln, 61, 66))
                   /\ IsSignedField(Slice(Ln, 67, 72))
       /\ t \in {8, 9} => /\ IsCartesianField(Slice(Ln, 46, 55))
                          /\ IsCartesianField(Slice(Ln, 55, 64))
                          /\ IsCartesianField(Slice(Ln, 64, 73))

IsStr(x) == "str" \in DOMAIN x

----------------------------------------------------------------------------
(* Properties *)

\* C1: for every valid line of every supported observation type, toB3()
\* returns a line that reproduces the classification column, the satellite
\* and sensor ids, the date columns, the observation-type digit and the
\* columns of every field the type defines.
C1_RoundTrip ==
    (out # NotYet /\ ValidLine(L)) =>
        /\ IsStr(out)
        /\ SameColumns(L, out.str, 0, 9)
        /\ SameColumns(L, out.str, 9, 23)
        /\ SameColumns(L, out.str, 74, 75)
        /\ \A c \in DefinedColumns(LineType(L)) : SameColumns(L, out.str, c[1], c[2])

\* C2: for a line whose date columns are in range, the parsed timestamp has
\* the pivoted year, the line's day of year, hour, minute and second, and
\* exactly mmm * 1000 microseconds.
C2_Timestamp ==
    (Constructed /\ DateInRange(L)) =>
        LET yy == DigitsVal(Slice(L, 9, 11)) IN
        rec.datetime =
            [year        |-> IF yy < 50 THEN 2000 + yy ELSE 1900 + yy,
             doy         |-> DigitsVal(Slice(L, 11, 14)),
             hour        |-> DigitsVal(Slice(L, 14, 16)),
             minute      |-> DigitsVal(Slice(L, 16, 18)),
             second      |-> DigitsVal(Slice(L, 18, 20)),
             microsecond |-> DigitsVal(Slice(L, 20, 23)) * 1000]

\* C3: after parsing a line of a supported type, every optional numeric
\* field the dispatch table does not define for that type holds the
\* not-present sentinel.
C3_AbsentSentinel ==
    (Constructed /\ rec.obstype \in ObsTypes) =>
        \A f \in OptionalAttributes \ DefinedAttributes(rec.obstype) :
            AttributeOf(rec, f) = default

\* v rounded to `right` decimal places
Rounded(v, right) ==
    NumNorm((IF NumNeg(v) THEN -1 ELSE 1) * RoundScaled(v, right), 1, -right)

\* C4: for every sign-substituted wire field and every value below 10^left in
\* magnitude, the parser decodes the encoded field back to the value rounded
\* to `right` decimal places.
C4_FieldRoundTrip ==
    fdec # NotYet => fdec = Rounded(fval, FieldLayout(ffield).right)

\* |v| >= 10^k
AtLeastPow10(v, k) == ScaledNum(v, 0) \div ScaledDen(v, 0) >= Pow10(k)

\* the exponent digit of a range falls outside 0..9
RangeExponentOut(v) == v.n <= 0 \/ Log10Floor(v) < 1 \/ Log10Floor(v) >= 11

GenType == NumToInt(gdata["XA_OBS_OBSTYPE"])

\* a value of the record does not fit the fixed width of a field its type writes
Oversize ==
    LET t == GenType IN
    \/ AtLeastPow10(gdata["XA_OBS_SATNUM"], 5)
    \/ AtLeastPow10(gdata["XA_OBS_SENNUM"], 3)
    \/ t \in {1, 2, 3, 4, 5, 8, 9} /\ AtLeastPow10(gdata["XA_OBS_ELORDEC"], 2)
    \/ t \in {1, 2, 3, 4, 8} /\ AtLeastPow10(gdata["XA_OBS_AZORRA"], 3)
    \/ t \in {2, 3, 4, 6} /\ RangeExponentOut(gdata["XA_OBS_RANGE"])
    \/ t \in {3, 4} /\ AtLeastPow10(gdata["XA_OBS_RANGERATE"], 2)
    \/ t = 4 /\ \E k \in {"XA_OBS_ELRATE", "XA_OBS_AZRATE", "XA_OBS_RANGEACCEL"} :
                   AtLeastPow10(gdata[k], 1)
    \/ t \in {8, 9} /\ \E k \in {"XA_OBS_POSX", "XA_OBS_POSY", "XA_OBS_POSZ"} :
                   AtLeastPow10(gdata[k], 6)

Dispatched == gout # NotYet /\ GenType \in ObsTypes /\ Len(geq) = 1

\* C5: b3_dispatcher raises whenever a value does not fit its fixed width,
\* and satellite id 99999 with sensor id 999 generates into columns [1,6)
\* and [6,9).
C5_OverflowRaises ==
    Dispatched =>
        /\ Oversize => IsRaise(gout)
        /\ (~Oversize /\ gdata["XA_OBS_SATNUM"] = Float(99999)
                      /\ gdata["XA_OBS_SENNUM"] = Float(999)) =>
              /\ IsStr(gout)
              /\ Slice(gout.str, 1, 9) = <<"9", "9", "9", "9", "9", "9", "9", "9">>

\* C6: B3(line) raises when the line is shorter than 76 characters, when the
\* classification is not U/C/S, when the observation-type digit is not a
\* supported type, when satellite id, sensor id or a date column is not
\* numeric, or when the range of a type 2, 3, 4 or 6 line is blank or not
\* numeric.
MalformedMandatory(Ln) ==
    \/ Len(Ln) < 76
    \/ Ln[1] \notin Classifications
    \/ ~IsDigit(Ln[75]) \/ LineType(Ln) \notin ObsTypes
    \/ ~AllDigits(Slice(Ln, 1, 23))
    \/ LineType(Ln) \in {2, 3, 4, 6} /\ ~AllDigits(Slice(Ln, 38, 46))

C6_MalformedRejected ==
    (rec # NotYet /\ IsLine(L) /\ MalformedMandatory(L)) => IsRaise(rec)

\* v cut to its leading 7 significant digits
Truncated7(v) ==
    LET k == Len(NatStr(v.n)) IN
    IF k <= 7 THEN v ELSE NumNorm(v.n \div Pow10(k - 7), 1, v.e + k - 7)

RangeEncodable(v) == v.n > 0 /\ Log10Floor(v) \in 1..8

C8_DispatchTotal ==
    (Dispatched /\ ~Oversize) =>
        /\ IsStr(gout)
        /\ Len(gout.str) = 76
        /\ gout.str[75] = TypeChar(GenType)
        /\ gout.str[76] = geq[1]

AttributeKey(f) ==
    CASE f = "eledec" -> "XA_OBS_ELORDEC" [] f = "azra" -> "XA_OBS_AZORRA"
      [] f = "range" -> "XA_OBS_RANGE" [] f = "rngrate" -> "XA_OBS_RANGERATE"
      [] f = "elrate" -> "XA_OBS_ELRATE" [] f = "azrate" -> "XA_OBS_AZRATE"
      [] f = "rangeacc" -> "XA_OBS_RANGEACCEL" [] f = "ecfx" -> "XA_OBS_POSX"
      [] f = "ecfy" -> "XA_OBS_POSY" [] f = "ecfz" -> "XA_OBS_POSZ"

\* C9: toAstrostdDict returns every key of as_fields; each quantity the
\* record's type defines carries the parsed value, every other quantity is
\* 0.0.
C9_ExportFaithful ==
    (asd # NotYet /\ ~IsRaise(asd) /\ rec.obstype \in ObsTypes) =>
        /\ DOMAIN asd = as_fields
        /\ \A f \in OptionalAttributes :
              asd[AttributeKey(f)] =
                  IF f \in DefinedAttributes(rec.obstype) THEN AttributeOf(rec, f)
                  ELSE Float(0)

SignTable ==
    ("0" :> "-") @@ ("1" :> "J") @@ ("2" :> "K") @@ ("3" :> "L") @@ ("4" :> "M") @@
    ("5" :> "N") @@ ("6" :> "O") @@ ("7" :> "P") @@ ("8" :> "Q") @@ ("9" :> "R")

\* C10: B3_float_field returns exactly left+right characters; all digits for
\* v >= 0; for v < 0 the first digit of the encoding of |v| is replaced by
\* '-' when it is 0 and by its letter J..R otherwise, the other digits are
\* unchanged; and the letters are the inverse of the parser's charmap.
C10_EncodingShape ==
    fenc # NotYet =>
        LET lay == FieldLayout(ffield)
            s   == fenc.str
            p   == B3_float_field(NumAbs(fval), lay.left, lay.right)
        IN  /\ Len(s) = lay.left + lay.right
            /\ ~NumNeg(fval) => AllDigits(s)
            /\ NumNeg(fval) => /\ AllDigits(p)
                               /\ s[1] = SignTable[p[1]]
                               /\ Tail(s) = Tail(p)
                               /\ p[1] # "0" =>
                                     /\ s[1] \in DOMAIN charmap
                                     /\ charmap[s[1]] = <<"-", p[1]>>
            /\ DOMAIN charmap = {SignTable[d] : d \in DOMAIN SignTable} \ {"-"}

\* a negative value whose leading digit is 9 was encoded
C10_Witness == fenc # NotYet /\ NumNeg(fval) /\ fenc.str[1] = "R"

\* v * 60000 for v >= 0, rounded down and rounded up: the angle as a count of
\* 1/60000 degree, of which a step of the sexagesimal field (0.1 s of time,
\* 15/36000 degree) is 25
UnitsExact(v) ==
    LET num == IF v.e + 4 >= 0 THEN 6 * v.n * Pow10(v.e + 4) ELSE 6 * v.n
        den == IF v.e + 4 >= 0 THEN v.d ELSE v.d * Pow10(-(v.e + 4))
    IN  [q |-> num \div den, r |-> num % den]
UnitsCeil(v) == IF UnitsExact(v).r = 0 THEN UnitsExact(v).q ELSE UnitsExact(v).q + 1
UnitsFloor(v) == IF IsPrevFloat(v) THEN UnitsCeil(v) - 1 ELSE UnitsExact(v).q

\* |x + turns * 360 - a| <= 15/36000 degree, x a whole count of units
WithinStep(x, turns, a) ==
    LET xu == UnitsExact(x).q + turns * 21600000 IN
    /\ UnitsExact(x).r = 0
    /\ xu <= UnitsFloor(a) + 25
    /\ xu >= UnitsCeil(a) - 25

\* C11 as stated: makeRA(a) is 7 digits and the decoded value is within one
\* step of a, for every a in [0, 360).
C11_RoundTripLiteral ==
    /\ aenc # NotYet => (Len(aenc.str) = 7 /\ AllDigits(aenc.str))
    /\ adec # NotYet => (IsNum(adec) /\ WithinStep(adec, 0, aval))

\* C11 (amended): for every angle a in [0, 360) makeRA(a) is exactly 7 digit
\* characters, and the value the parser decodes from them is within one step
\* of the field (15/36000 degree) of a modulo 360: of a itself, or, for the
\* angles that makeRA wraps to 0000000, of a - 360.
C11_RoundTrip ==
    /\ aenc # NotYet => (Len(aenc.str) = 7 /\ AllDigits(aenc.str))
    /\ adec # NotYet =>
          /\ IsNum(adec)
          /\ WithinStep(adec, 0, aval) \/ WithinStep(adec, 1, aval)

\* an angle just below 360 whose seconds round up to a full minute was
\* encoded and decoded
C11_Witness ==
    /\ adec # NotYet /\ ~IsPrevFloat(aval)
    /\ aenc.str = <<"2", "3", "5", "9", "6", "0", "0">>
    /\ adec = Float(360)

\* YYDDDHHMMSSmmm of a timestamp: two-digit year, day of year, hour, minute,
\* second and whole milliseconds
StampOf(dt) ==
    FormatD(dt.year % 100, 2) \o FormatD(dt.doy, 3) \o FormatD(dt.hour, 2)
      \o FormatD(dt.minute, 2) \o FormatD(dt.second, 2)
      \o FormatD(dt.microsecond \div 1000, 3)

Overridden == gout # NotYet /\ gplain # NotYet /\ gdatetm # None

\* with and without the override the call gives a line, or the same failure
OverrideFrame ==
    Overridden =>
        /\ IsStr(gout) <=> IsStr(gplain)
        /\ ~IsStr(gout) => gout = gplain
        /\ IsStr(gout) =>
              /\ Len(gout.str) = Len(gplain.str)
              /\ \A i \in 1..Len(gout.str) :
                    (i <= 9 \/ i > 23) => gout.str[i] = gplain.str[i]
              /\ Slice(gout.str, 9, 23) = StampOf(gdatetm)

\* C12: for every record and every override timestamp, the line b3_dispatcher
\* produces with the override equals the line it produces without it in every
\* column outside [9, 23), columns [9, 23) hold the override's YYDDDHHMMSSmmm,
\* and no step changes the record mapping.
C12_OverrideFrame == []OverrideFrame /\ [][gdata' = gdata]_vars

\* a type-9 line was produced with an override that changed its date columns
C12_Witness ==
    /\ Overridden /\ IsStr(gout) /\ IsStr(gplain) /\ GenType = 9
    /\ Slice(gout.str, 9, 23) # Slice(gplain.str, 9, 23)
    /\ Slice(gout.str, 20, 23) = <<"0", "0", "7">>

=============================================================================
